---- MODULE Spec2Model ----
(***************************************************************************)
(* Playback continuation of turto: the `queue` command                     *)
(* (src/commands/queue.rs) and the track-end event handler                 *)
(* (src/handlers/track_end.rs), over the shared playlist map, the shared   *)
(* guild-config map and the voice backend.                                 *)
(*                                                                         *)
(* Every async function is cut at its suspension points (.await): the code *)
(* between two awaits is one step.  An await on a collaborator (ytdl, the  *)
(* reply, the backend) is resolved by the step that follows it, which      *)
(* draws the collaborator's outcome.                                       *)
(***************************************************************************)
EXTENDS Integers, Sequences, FiniteSets, TLC

\* ------------------------------------------------------------------ bounds
NumGuilds == 2
NumCmds == 2
MaxItems == 2
MaxLen == 3
NumFifoItems == 3

Guilds == 1..NumGuilds
Cmds == 1..NumCmds
Items == 1..MaxItems
FifoItems == 1..NumFifoItems

\* Option::None of an item / of a lock holder.
None == 0
NoTask == 0
\* A track that was started by a caller outside the two handlers modelled.
ExternalTrack == -1

VARIABLES
    playlists,      \* HashMap<GuildId, Playlist>: a function on the keys present
    playlistsLock,  \* holder of the Mutex around that map, or NoTask
    configs,        \* HashMap<GuildId, GuildConfig>: a function on the keys present
    cmd,            \* per command task: position and locals of `queue`
    h,              \* per guild: position and locals of TrackEndHandler::act
    playing,        \* voice backend: the track streaming per guild, or None
    connected,      \* voice backend: whether a Call exists for the guild
    nextItem,       \* id given to the next resolved source
    pushed,         \* history: items in the order their push took effect
    started,        \* history: items in the order they were passed to start
    startsSinceEnd, \* history: start calls since the last completion/disconnect
    lastQueue,      \* history: how the most recent `queue` call ended
    fifoIn,         \* FIFO law: the sequence of push_back arguments
    fifoQ,          \* FIFO law: the playlist under test
    fifoOut,        \* FIFO law: the items pop_front returned
    fifoN,          \* FIFO law: number of push_back calls made
    fifoSentinel    \* FIFO law: pop_front returned None

mainVars == <<playlists, playlistsLock, configs, cmd, h, playing, connected,
              nextItem, pushed, started, startsSinceEnd, lastQueue>>
fifoVars == <<fifoIn, fifoQ, fifoOut, fifoN, fifoSentinel>>
vars == <<playlists, playlistsLock, configs, cmd, h, playing, connected,
          nextItem, pushed, started, startsSinceEnd, lastQueue,
          fifoIn, fifoQ, fifoOut, fifoN, fifoSentinel>>

\* ------------------------------------------------------------ Playlist
Playlist_new == <<>>

push_back(q, x) == Append(q, x)

\* Faulty variants of pop_front: one takes the newest item, one leaves the
\* item in the queue.
pop_front_back(q) ==
    IF q = <<>> THEN [item |-> None, rest |-> q]
    ELSE [item |-> q[Len(q)], rest |-> SubSeq(q, 1, Len(q) - 1)]

pop_front_peek(q) ==
    IF q = <<>> THEN [item |-> None, rest |-> q]
    ELSE [item |-> Head(q), rest |-> q]

pop_front(q) ==
    IF q = <<>> THEN [item |-> None, rest |-> q]
    ELSE [item |-> Head(q), rest |-> Tail(q)]

\* GuildConfig::default().auto_leave
DefaultAutoLeave == TRUE

GuildConfig_default == [auto_leave |-> DefaultAutoLeave]

\* Faulty variant of entry_or_insert: a fresh playlist replaces the entry found.
entry_or_insert_fresh(m, g) ==
    IF g \in DOMAIN m THEN [m EXCEPT ![g] = Playlist_new]
    ELSE m @@ (g :> Playlist_new)

\* HashMap::entry(k).or_insert_with(Playlist::new)
entry_or_insert(m, g) ==
    IF g \in DOMAIN m THEN m ELSE m @@ (g :> Playlist_new)

\* Faulty variants of entry_or_default: one gives every guild an entry, one
\* resets the entry found.
entry_or_default_all(m, g) ==
    [x \in DOMAIN m \cup Guilds |->
        IF x \in DOMAIN m THEN m[x] ELSE GuildConfig_default]

entry_or_default_reset(m, g) ==
    IF g \in DOMAIN m THEN [m EXCEPT ![g] = GuildConfig_default]
    ELSE m @@ (g :> GuildConfig_default)

\* HashMap::entry(k).or_default()
entry_or_default(m, g) ==
    IF g \in DOMAIN m THEN m ELSE m @@ (g :> GuildConfig_default)

\* ------------------------------------------------------------ queue command
IdleCmd == [pc |-> "idle", guild |-> None, item |-> None]

\* The guild's playback state as the voice backend and the handler have it:
\* a track is streaming, or act is between two tracks, or nothing plays.
Session(g) ==
    IF playing[g] # None THEN "Playing"
    ELSE IF h[g].pc \in {"idle", "done"} THEN "Idle" ELSE "Advancing"

\* What `queue` returned, and the playback state of the guild at that moment.
Returned(c, res) ==
    [guild |-> cmd[c].guild, item |-> cmd[c].item, result |-> res,
     session |-> Session(cmd[c].guild)]

NoQueue == [guild |-> None, item |-> None, result |-> "none", session |-> "Idle"]

\* queue.rs:12  songbird::input::ytdl(&url).await?
QueueResolve(c, g) ==
    /\ cmd[c].pc = "idle"
    /\ nextItem <= MaxItems
    /\ \E ok \in BOOLEAN :
        IF ok
        THEN /\ cmd' = [cmd EXCEPT ![c] = [pc |-> "lock", guild |-> g,
                                           item |-> nextItem]]
             /\ nextItem' = nextItem + 1
             /\ lastQueue' = lastQueue
        ELSE /\ cmd' = cmd
             /\ nextItem' = nextItem
             /\ lastQueue' = [guild |-> g, item |-> None,
                              result |-> "ResolutionError",
                              session |-> Session(g)]
    /\ UNCHANGED <<playlists, playlistsLock, configs, h, playing, connected,
                   pushed, started, startsSinceEnd>>
    /\ UNCHANGED fifoVars

\* queue.rs:23-28  lock().await, entry().or_insert_with(), the reply's
\* argument (title.unwrap()), then suspension in msg.reply(..).await with
\* the guard alive.
QueueLock(c) ==
    /\ cmd[c].pc = "lock"
    /\ playlistsLock = NoTask
    /\ playlists' = entry_or_insert(playlists, cmd[c].guild)
    /\ \E titled \in BOOLEAN :
        IF titled
        THEN /\ playlistsLock' = c
             /\ cmd' = [cmd EXCEPT ![c].pc = "reply"]
             /\ lastQueue' = lastQueue
        ELSE \* unwrap() on a None title panics; unwinding drops the guard
             /\ playlistsLock' = NoTask
             /\ cmd' = [cmd EXCEPT ![c] = IdleCmd]
             /\ lastQueue' = Returned(c, "Panic")
    /\ UNCHANGED <<configs, h, playing, connected, nextItem,
                   pushed, started, startsSinceEnd>>
    /\ UNCHANGED fifoVars

\* Faulty variant of QueuePush: the item goes to the front.
QueuePush_front(q, x) == <<x>> \o q

\* queue.rs:30  playlist.push_back(Metadata::from(*metadata))
QueuePush(q, x) == push_back(q, x)

\* Faulty variant of PushesAfterReply: the item is pushed whatever the reply
\* returned.
PushesAfterReply_always(ok) == TRUE

\* queue.rs:28-30  `.await?` returns before push_back when the reply failed
PushesAfterReply(ok) == ok

\* Faulty variant of QueueReply: after a failed reply the entry is taken out
\* of the map again when it holds nothing.
QueueReply_cleanup(c) ==
    /\ cmd[c].pc = "reply"
    /\ playlistsLock = c
    /\ \E ok \in BOOLEAN :
        LET g == cmd[c].guild IN
        /\ IF PushesAfterReply(ok)
           THEN /\ playlists' = [playlists EXCEPT ![g] = QueuePush(@, cmd[c].item)]
                /\ pushed' = [pushed EXCEPT ![g] = Append(@, cmd[c].item)]
           ELSE /\ playlists' =
                      IF playlists[g] = <<>>
                      THEN [x \in DOMAIN playlists \ {g} |-> playlists[x]]
                      ELSE playlists
                /\ pushed' = pushed
        /\ lastQueue' = Returned(c, IF ok THEN "Ok" ELSE "ReplyError")
    /\ cmd' = [cmd EXCEPT ![c] = IdleCmd]
    /\ playlistsLock' = NoTask
    /\ UNCHANGED <<configs, h, playing, connected, nextItem,
                   started, startsSinceEnd>>
    /\ UNCHANGED fifoVars

\* queue.rs:28-32  the reply resolves; on Ok the item is pushed; the guard
\* is dropped at the end of the block or by the `?` return.
QueueReply(c) ==
    /\ cmd[c].pc = "reply"
    /\ playlistsLock = c
    /\ \E ok \in BOOLEAN :
        LET g == cmd[c].guild IN
        /\ IF PushesAfterReply(ok)
           THEN /\ playlists' = [playlists EXCEPT ![g] = QueuePush(@, cmd[c].item)]
                /\ pushed' = [pushed EXCEPT ![g] = Append(@, cmd[c].item)]
           ELSE UNCHANGED <<playlists, pushed>>
        /\ lastQueue' = Returned(c, IF ok THEN "Ok" ELSE "ReplyError")
    /\ cmd' = [cmd EXCEPT ![c] = IdleCmd]
    /\ playlistsLock' = NoTask
    /\ UNCHANGED <<configs, h, playing, connected, nextItem,
                   started, startsSinceEnd>>
    /\ UNCHANGED fifoVars

\* ------------------------------------------------------------ track end
IdleHandler ==
    [pc |-> "idle", result |-> "none", item |-> None, auto_leave |-> FALSE,
     front |-> None, popped |-> 0, starts |-> 0, startArg |-> None,
     lookups |-> 0, created |-> FALSE, disconnects |-> 0, logged |-> 0]

\* Faulty variant of IsEmptyPlaylistErr: every error takes the leave path.
IsEmptyPlaylistErr_any(res) == res # "Ok"

\* track_end.rs:18  if let Err(PlayError::EmptyPlaylist(_)) = play_next(..)
IsEmptyPlaylistErr(res) == res = "EmptyPlaylist"

\* Faulty variant of AfterPlayNext: after a successful start act advances again.
AfterPlayNext_loop(res) ==
    IF IsEmptyPlaylistErr(res) THEN "config"
    ELSE IF res = "Ok" THEN "play_next" ELSE "done"

\* track_end.rs:18,40  where act goes once play_next has returned
AfterPlayNext(res) ==
    IF IsEmptyPlaylistErr(res) THEN "config" ELSE "done"

\* Faulty variant of LeaveWanted: the flag is ignored.
LeaveWanted_always(al) == TRUE

\* track_end.rs:32  if auto_leave
LeaveWanted(al) == al

\* The backend fires the TrackEnd event of the guild's current track and
\* calls act (track_end.rs:17).
TrackEnd(g) ==
    /\ playing[g] # None
    /\ h[g].pc \in {"idle", "done"}
    /\ playing' = [playing EXCEPT ![g] = None]
    /\ startsSinceEnd' = [startsSinceEnd EXCEPT ![g] = 0]
    /\ h' = [h EXCEPT ![g] = [IdleHandler EXCEPT !.pc = "play_next"]]
    /\ UNCHANGED <<playlists, playlistsLock, configs, cmd, connected,
                   nextItem, pushed, started, lastQueue>>
    /\ UNCHANGED fifoVars

\* Faulty variant of PlayNextPop: an empty playlist is reported as Ok.
PlayNextPop_ok(g) ==
    /\ h[g].pc = "play_next"
    /\ playlistsLock = NoTask
    /\ LET m == entry_or_insert(playlists, g)
           r == pop_front(m[g])
       IN /\ playlists' = [m EXCEPT ![g] = r.rest]
          /\ IF r.item = None
             THEN h' = [h EXCEPT ![g].result = "Ok",
                                 ![g].pc = AfterPlayNext("Ok")]
             ELSE h' = [h EXCEPT ![g].item = r.item,
                                 ![g].front = Head(m[g]),
                                 ![g].popped = @ + 1,
                                 ![g].pc = "start"]
    /\ UNCHANGED <<playlistsLock, configs, cmd, playing, connected,
                   nextItem, pushed, started, startsSinceEnd, lastQueue>>
    /\ UNCHANGED fifoVars

\* play_next, first half: the playlist entry is found or created and its
\* front item popped under the map lock, which is released before start.
PlayNextPop(g) ==
    /\ h[g].pc = "play_next"
    /\ playlistsLock = NoTask
    /\ LET m == entry_or_insert(playlists, g)
           r == pop_front(m[g])
       IN /\ playlists' = [m EXCEPT ![g] = r.rest]
          /\ IF r.item = None
             THEN h' = [h EXCEPT ![g].result = "EmptyPlaylist",
                                 ![g].pc = AfterPlayNext("EmptyPlaylist")]
             ELSE h' = [h EXCEPT ![g].item = r.item,
                                 ![g].front = Head(m[g]),
                                 ![g].popped = @ + 1,
                                 ![g].pc = "start"]
    /\ UNCHANGED <<playlistsLock, configs, cmd, playing, connected,
                   nextItem, pushed, started, startsSinceEnd, lastQueue>>
    /\ UNCHANGED fifoVars

\* play_next, second half: the backend's start resolves; on success the
\* track streams and a fresh TrackEndHandler is registered for it.
PlayNextStart(g) ==
    /\ h[g].pc = "start"
    /\ started' = [started EXCEPT ![g] = Append(@, h[g].item)]
    /\ startsSinceEnd' = [startsSinceEnd EXCEPT ![g] = @ + 1]
    /\ \E ok \in BOOLEAN :
        IF ok
        THEN /\ playing' = [playing EXCEPT ![g] = h[g].item]
             /\ h' = [h EXCEPT ![g].result = "Ok",
                               ![g].starts = @ + 1,
                               ![g].startArg = h[g].item,
                               ![g].pc = AfterPlayNext("Ok")]
        ELSE /\ playing' = playing
             /\ h' = [h EXCEPT ![g].result = "StartError",
                               ![g].starts = @ + 1,
                               ![g].startArg = h[g].item,
                               ![g].pc = AfterPlayNext("StartError")]
    /\ UNCHANGED <<playlists, playlistsLock, configs, cmd, connected,
                   nextItem, pushed, lastQueue>>
    /\ UNCHANGED fifoVars

\* track_end.rs:19-32  the config map is locked, the entry found or
\* created, auto_leave copied out and the guard dropped.
HandlerConfig(g) ==
    /\ h[g].pc = "config"
    /\ LET m == entry_or_default(configs, g)
           al == m[g].auto_leave
       IN /\ configs' = m
          /\ h' = [h EXCEPT ![g].auto_leave = al,
                            ![g].lookups = @ + 1,
                            ![g].created = g \notin DOMAIN configs,
                            ![g].pc = IF LeaveWanted(al) THEN "leave" ELSE "done"]
    /\ UNCHANGED <<playlists, playlistsLock, cmd, playing, connected,
                   nextItem, pushed, started, startsSinceEnd, lastQueue>>
    /\ UNCHANGED fifoVars

\* Faulty variant of AfterLeave: a failed disconnect is tried again.
AfterLeave_retry(ok) == IF ok THEN "done" ELSE "leave"

\* track_end.rs:35-40  whatever remove returned, act goes on to return None
AfterLeave(ok) == "done"

\* track_end.rs:33-37  manager.remove(guild_id).await; an Err is logged.
HandlerLeave(g) ==
    /\ h[g].pc = "leave"
    /\ \E ok \in BOOLEAN :
        /\ ok => connected[g]
        /\ IF ok
           THEN /\ connected' = [connected EXCEPT ![g] = FALSE]
                /\ h' = [h EXCEPT ![g].disconnects = @ + 1,
                                  ![g].pc = AfterLeave(ok)]
           ELSE /\ connected' = connected
                /\ h' = [h EXCEPT ![g].disconnects = @ + 1,
                                  ![g].logged = @ + 1,
                                  ![g].pc = AfterLeave(ok)]
    /\ startsSinceEnd' = [startsSinceEnd EXCEPT ![g] = 0]
    /\ UNCHANGED <<playlists, playlistsLock, configs, cmd, playing,
                   nextItem, pushed, started, lastQueue>>
    /\ UNCHANGED fifoVars

\* ------------------------------------------------------------ specification
FifoIdle ==
    /\ fifoIn = <<>>
    /\ fifoQ = Playlist_new
    /\ fifoOut = <<>>
    /\ fifoN = 0
    /\ fifoSentinel = FALSE

\* No playlist entry exists yet; the config map holds whatever was loaded
\* for each guild; a guild either has no voice session or is streaming a
\* track that a caller outside these handlers started.
Init ==
    /\ playlists = <<>>
    /\ playlistsLock = NoTask
    /\ configs \in UNION {[D -> [auto_leave : BOOLEAN]] : D \in SUBSET Guilds}
    /\ cmd = [c \in Cmds |-> IdleCmd]
    /\ h = [g \in Guilds |-> IdleHandler]
    /\ playing \in [Guilds -> {None, ExternalTrack}]
    /\ connected = [g \in Guilds |-> playing[g] # None]
    /\ nextItem = 1
    /\ pushed = [g \in Guilds |-> <<>>]
    /\ started = [g \in Guilds |-> <<>>]
    /\ startsSinceEnd = [g \in Guilds |-> IF playing[g] # None THEN 1 ELSE 0]
    /\ lastQueue = NoQueue
    /\ FifoIdle

Next ==
    \/ \E c \in Cmds, g \in Guilds : QueueResolve(c, g)
    \/ \E c \in Cmds : QueueLock(c)
    \/ \E c \in Cmds : QueueReply(c)
    \/ \E g \in Guilds : TrackEnd(g)
    \/ \E g \in Guilds : PlayNextPop(g)
    \/ \E g \in Guilds : PlayNextStart(g)
    \/ \E g \in Guilds : HandlerConfig(g)
    \/ \E g \in Guilds : HandlerLeave(g)

Spec == Init /\ [][Next]_vars

\* ------------------------------------------------------------ FIFO law
\* A fresh playlist, a sequence of push_back calls, then pop_front until it
\* returns None.
FifoPush ==
    /\ fifoN < Len(fifoIn)
    /\ fifoQ' = push_back(fifoQ, fifoIn[fifoN + 1])
    /\ fifoN' = fifoN + 1
    /\ UNCHANGED <<fifoIn, fifoOut, fifoSentinel>>
    /\ UNCHANGED mainVars

FifoPop ==
    /\ fifoN = Len(fifoIn)
    /\ ~fifoSentinel
    /\ LET r == pop_front(fifoQ)
       IN /\ fifoQ' = r.rest
          /\ IF r.item = None
             THEN fifoSentinel' = TRUE /\ fifoOut' = fifoOut
             ELSE fifoSentinel' = FALSE /\ fifoOut' = Append(fifoOut, r.item)
    /\ UNCHANGED <<fifoIn, fifoN>>
    /\ UNCHANGED mainVars

InitFifo ==
    /\ playlists = <<>>
    /\ playlistsLock = NoTask
    /\ configs = <<>>
    /\ cmd = [c \in Cmds |-> IdleCmd]
    /\ h = [g \in Guilds |-> IdleHandler]
    /\ playing = [g \in Guilds |-> None]
    /\ connected = [g \in Guilds |-> FALSE]
    /\ nextItem = 1
    /\ pushed = [g \in Guilds |-> <<>>]
    /\ started = [g \in Guilds |-> <<>>]
    /\ startsSinceEnd = [g \in Guilds |-> 0]
    /\ lastQueue = NoQueue
    /\ fifoIn \in UNION {[1..n -> FifoItems] : n \in 0..MaxLen}
    /\ fifoQ = Playlist_new
    /\ fifoOut = <<>>
    /\ fifoN = 0
    /\ fifoSentinel = FALSE

NextFifo == FifoPush \/ FifoPop

SpecFifo == InitFifo /\ [][NextFifo]_vars

\* ------------------------------------------------------------ claims

\* C8: on a fresh playlist, after any sequence of push_back calls, repeated
\* pop_front returns the items in the order they were pushed (what has been
\* popped, followed by what is still queued, is always the pushed sequence)
\* and pop_front returns None exactly when all of them have been returned.
C8_FifoLaw ==
    /\ fifoN = Len(fifoIn) => fifoOut \o fifoQ = fifoIn
    /\ fifoSentinel => fifoOut = fifoIn /\ fifoQ = <<>>

C8_Witness ==
    /\ fifoSentinel
    /\ Len(fifoIn) >= 2
    /\ fifoIn[1] # fifoIn[2]
    /\ fifoOut = fifoIn

\* ------------------------------------------------------------ helpers
Range(q) == {q[i] : i \in 1..Len(q)}

IsPrefix(p, q) == Len(p) <= Len(q) /\ SubSeq(q, 1, Len(p)) = p

NoDuplicates(q) == \A i, j \in 1..Len(q) : q[i] = q[j] => i = j

Items_of(m, g) == IF g \in DOMAIN m THEN m[g] ELSE <<>>

\* The step in which `queue` of task c returns Ok.
QueueOkStep(c) ==
    /\ cmd[c].pc = "reply"
    /\ cmd'[c].pc = "idle"
    /\ lastQueue'.result = "Ok"

\* The step in which play_next of guild g takes the registry lock and pops.
PopStep(g) == h[g].pc = "play_next" /\ h'[g] # h[g]

\* C1: start is never invoked for a guild that has an active playback
\* session: when act is about to call start no track is streaming for the
\* guild, and no guild has seen two start calls without a completion or a
\* disconnect between them.
C1_NoDoubleStart ==
    \A g \in Guilds :
        /\ startsSinceEnd[g] <= 1
        /\ h[g].pc = "start" => playing[g] = None

C1_Witness ==
    \E g \in Guilds : Len(started[g]) >= 2 /\ playing[g] = started[g][2]

\* C2: when `queue` has returned Ok for a guild that was Idle,
\* start has been called with the enqueued item.
C2_EnqueueStartsIdleGuild ==
    (lastQueue.result = "Ok" /\ lastQueue.session = "Idle")
        => lastQueue.item \in Range(started[lastQueue.guild])

\* C3: when act has run and play_next returned EmptyPlaylist, disconnect
\* was commanded exactly once if the guild's auto_leave is true and not at
\* all if it is false.
C3_LeaveIffAutoLeave ==
    \A g \in Guilds :
        /\ h[g].disconnects <= 1
        /\ (h[g].pc = "done" /\ h[g].result = "EmptyPlaylist")
            => /\ g \in DOMAIN configs
               /\ h[g].disconnects = IF configs[g].auto_leave THEN 1 ELSE 0

C3_Witness ==
    \E g1, g2 \in Guilds :
        /\ h[g1].pc = "done" /\ h[g1].result = "EmptyPlaylist"
        /\ configs[g1].auto_leave /\ h[g1].disconnects = 1
        /\ h[g2].pc = "done" /\ h[g2].result = "EmptyPlaylist"
        /\ ~configs[g2].auto_leave /\ h[g2].disconnects = 0

\* C4: when act has run for a guild whose playlist was non-empty, the item
\* passed to start is the one that was at the front, start was called once,
\* no auto_leave lookup was made and no disconnect commanded, whatever the
\* guild's auto_leave and whatever start returned.
C4_NonEmptyAdvance ==
    \A g \in Guilds :
        /\ h[g].pc = "start" =>
              /\ h[g].item = h[g].front
              /\ h[g].lookups = 0 /\ h[g].disconnects = 0
        /\ (h[g].pc = "done" /\ h[g].front # None)
            => /\ h[g].starts = 1
               /\ h[g].startArg = h[g].front
               /\ h[g].lookups = 0
               /\ h[g].disconnects = 0

C4_Witness ==
    \E g \in Guilds :
        /\ h[g].pc = "done" /\ h[g].front # None
        /\ h[g].result = "StartError"
        /\ g \in DOMAIN configs /\ configs[g].auto_leave
        /\ h[g].startArg = h[g].front
        /\ Len(pushed[g]) >= 2

\* C5: a `queue` call that returns Ok for a guild with a track streaming
\* appends the item to the back of that guild's playlist, and in that step
\* no play_next is begun and start is not called.
C5_EnqueueWhilePlaying ==
    [][\A c \in Cmds :
        (QueueOkStep(c) /\ playing[cmd[c].guild] # None)
            => /\ playlists'[cmd[c].guild]
                    = Append(playlists[cmd[c].guild], cmd[c].item)
               /\ started' = started
               /\ playing' = playing
               /\ h' = h]_vars

C5_Witness ==
    /\ lastQueue.result = "Ok"
    /\ lastQueue.session = "Playing"
    /\ playing[lastQueue.guild] # None
    /\ Len(Items_of(playlists, lastQueue.guild)) >= 2
    /\ Items_of(playlists, lastQueue.guild)[2] = lastQueue.item

\* C6: play_next on a guild whose playlist is empty (or absent) returns
\* EmptyPlaylist, leaves the playlist empty and does not call start.
C6_EmptyAdvance ==
    /\ [](\A g \in Guilds :
            h[g].result = "EmptyPlaylist"
                => h[g].starts = 0 /\ h[g].popped = 0 /\ h[g].pc # "start")
    /\ [][\A g \in Guilds :
            (PopStep(g) /\ Items_of(playlists, g) = <<>>)
                => /\ h'[g].result = "EmptyPlaylist"
                   /\ h'[g].pc # "start"
                   /\ playlists'[g] = <<>>
                   /\ started' = started
                   /\ playing' = playing]_vars

C6_Witness ==
    \E g \in Guilds :
        /\ h[g].result = "EmptyPlaylist"
        /\ g \in DOMAIN playlists /\ playlists[g] = <<>>
        /\ started[g] = <<>>

\* C7: play_next on a guild whose playlist is non-empty removes exactly the
\* oldest item and keeps the others in order; an item that was passed to
\* start is not in the playlist any more and is never popped again.
C7_PopsOldest ==
    /\ [](\A g \in Guilds :
            /\ NoDuplicates(started[g])
            /\ Range(started[g]) \cap Range(Items_of(playlists, g)) = {}
            /\ h[g].pc = "start" => h[g].item \notin Range(Items_of(playlists, g)))
    /\ [][\A g \in Guilds :
            (PopStep(g) /\ Items_of(playlists, g) # <<>>)
                => /\ playlists'[g] = Tail(playlists[g])
                   /\ Len(playlists'[g]) = Len(playlists[g]) - 1
                   /\ h'[g].item = Head(playlists[g])]_vars

C7_Witness ==
    \E g \in Guilds :
        /\ Len(started[g]) >= 1
        /\ playing[g] = started[g][1]
        /\ Len(playlists[g]) >= 1
        /\ Len(pushed[g]) >= 2

\* C9: per guild, the items passed to start, in order, are a prefix of the
\* items in the order their pushes took effect; every pushed item is either
\* already passed to start, in the hands of a running play_next, or still in
\* the playlist, in push order.
C9_StartedPrefixOfPushed ==
    \A g \in Guilds :
        /\ IsPrefix(started[g], pushed[g])
        /\ pushed[g] = started[g]
                        \o (IF h[g].pc = "start" THEN <<h[g].item>> ELSE <<>>)
                        \o Items_of(playlists, g)

\* Two items resolved in one order, pushed in the other, both started.
C9_Witness ==
    \E g \in Guilds :
        /\ Len(started[g]) >= 2
        /\ started[g] = pushed[g]
        /\ started[g][1] > started[g][2]

\* C10: a task suspended while it holds the lock for guild A's
\* playlist entry does not keep a task that wants guild B's entry from
\* taking its access.
C10_DifferentGuildsIndependent ==
    \A c \in Cmds :
        cmd[c].pc = "reply" =>
            /\ \A c2 \in Cmds :
                (cmd[c2].pc = "lock" /\ cmd[c2].guild # cmd[c].guild)
                    => ENABLED QueueLock(c2)
            /\ \A g \in Guilds :
                (h[g].pc = "play_next" /\ g # cmd[c].guild)
                    => ENABLED PlayNextPop(g)

\* C11: find-or-create never creates a second entry for a guild: when two
\* `queue` calls for a guild without an entry are pending together, the one
\* that comes second finds the entry of the first, so every item whose push
\* took effect is in the guild's one entry unless play_next has taken it
\* out; each map holds one value per guild id.
C11_OneEntryPerGuild ==
    /\ DOMAIN playlists \subseteq Guilds
    /\ DOMAIN configs \subseteq Guilds
    /\ \A g \in Guilds :
        /\ pushed[g] # <<>> => g \in DOMAIN playlists
        /\ Range(pushed[g]) \subseteq
              Range(started[g]) \cup {h[g].item} \cup Range(Items_of(playlists, g))
        /\ Len(Items_of(playlists, g)) <= Len(pushed[g])
    /\ \A c \in Cmds :
        cmd[c].pc = "reply" => cmd[c].guild \in DOMAIN playlists

\* Two calls were pending for a guild that had no entry (no handler ever ran
\* for it); the later-resolved one pushed first; both items are in the entry.
C11_Witness ==
    \E g \in Guilds :
        /\ h[g].pc = "idle"
        /\ Len(Items_of(playlists, g)) = 2
        /\ playlists[g][1] > playlists[g][2]

\* C12: no task is suspended on the voice backend or on a network
\* collaborator while it holds the lock of the playlist map: a `queue` call
\* waiting for its reply does not hold it.
C12_NoLockAcrossAwait ==
    \A c \in Cmds : cmd[c].pc = "reply" => playlistsLock # c

\* What belongs to guild g: its playlist entry, its config entry and its
\* voice session.
GuildState(g) ==
    <<g \in DOMAIN playlists, Items_of(playlists, g),
      g \in DOMAIN configs, IF g \in DOMAIN configs THEN configs[g].auto_leave ELSE FALSE,
      playing[g], connected[g]>>

\* The guilds on whose behalf a step is taken: those of the `queue` calls
\* and of the handlers that move in it.
ActorGuilds ==
    {cmd[c].guild : c \in {x \in Cmds : cmd'[x] # cmd[x]}}
        \cup {cmd'[c].guild : c \in {x \in Cmds : cmd'[x] # cmd[x]}}
        \cup {g \in Guilds : h'[g] # h[g]}

\* C13: a step of a `queue` call or of a handler run for guild G leaves the
\* playlist, the config and the voice session of every other guild as they
\* were.
C13_OtherGuildsUntouched ==
    [][\A g \in Guilds : g \notin ActorGuilds => GuildState(g)' = GuildState(g)]_vars

\* Guild g1 was enqueued to, played out and was left; g2 still streams the
\* track it began with and has neither a playlist nor a config entry.
C13_Witness ==
    \E g1, g2 \in Guilds :
        /\ g1 # g2
        /\ pushed[g1] # <<>>
        /\ h[g1].pc = "done" /\ h[g1].disconnects = 1 /\ ~connected[g1]
        /\ g1 \in DOMAIN configs
        /\ playing[g2] = ExternalTrack /\ connected[g2]
        /\ g2 \notin DOMAIN playlists
        /\ g2 \notin DOMAIN configs

\* C14: when play_next has returned an error other than EmptyPlaylist, act
\* ends without calling play_next again, without an auto_leave lookup and
\* without a disconnect, and it has logged the error.
C14_StartErrorLogged ==
    \A g \in Guilds :
        (h[g].pc = "done" /\ h[g].result = "StartError")
            => /\ h[g].popped = 1
               /\ h[g].starts = 1
               /\ h[g].lookups = 0
               /\ h[g].disconnects = 0
               /\ h[g].logged >= 1

\* C16: when the disconnect of the exhaustion path fails, act logs the
\* failure and ends: the disconnect was commanded once and is not commanded
\* again, and the failing step changes no playlist, no config and no voice
\* session.
C16_LeaveFailureTerminal ==
    /\ [](\A g \in Guilds :
            h[g].logged >= 1
                => /\ h[g].pc = "done"
                   /\ h[g].logged = 1
                   /\ h[g].disconnects = 1
                   /\ h[g].result = "EmptyPlaylist")
    /\ [][\A g \in Guilds :
            (h[g].pc = "leave" /\ h'[g].logged = h[g].logged + 1)
                => /\ h'[g].pc = "done"
                   /\ playlists' = playlists
                   /\ configs' = configs
                   /\ connected' = connected
                   /\ playing' = playing]_vars

C16_Witness ==
    \E g \in Guilds :
        /\ h[g].pc = "done"
        /\ h[g].logged = 1
        /\ h[g].disconnects = 1
        /\ connected[g]
        /\ configs[g].auto_leave

\* C17: a guild id that has an entry in the playlist map or in the config
\* map has it in every later state; a playlist that has become empty keeps
\* its contents' place, so the next push lands in the same entry.
C17_EntriesKept ==
    [][/\ DOMAIN playlists \subseteq DOMAIN playlists'
       /\ DOMAIN configs \subseteq DOMAIN configs'
       /\ \A c \in Cmds :
            (QueueOkStep(c) /\ cmd[c].guild \in DOMAIN playlists)
                => playlists'[cmd[c].guild]
                     = Append(playlists[cmd[c].guild], cmd[c].item)]_vars

\* The guild's playlist ran empty (act found nothing to play) and a later
\* `queue` call pushed to the entry.
C17_Witness ==
    \E g \in Guilds :
        /\ h[g].pc = "done" /\ h[g].result = "EmptyPlaylist"
        /\ lastQueue.result = "Ok" /\ lastQueue.guild = g
        /\ lastQueue.session = "Idle"
        /\ g \in DOMAIN playlists
        /\ playlists[g] = <<lastQueue.item>>
        /\ g \in DOMAIN configs

\* The step in which act of guild g reads auto_leave from the config map.
ConfigStep(g) == h[g].pc = "config" /\ h'[g] # h[g]

\* C18: the auto_leave lookup of act creates the guild's config entry with
\* the default values when there is none and decides with that value; it
\* leaves an existing entry as it is, and no step changes the auto_leave of
\* an entry that exists.
C18_LookupCreatesDefault ==
    [][/\ \A g \in DOMAIN configs :
            g \in DOMAIN configs' /\ configs'[g] = configs[g]
       /\ \A g \in Guilds :
            ConfigStep(g)
                => /\ g \in DOMAIN configs => configs' = configs
                   /\ g \notin DOMAIN configs
                        => /\ DOMAIN configs' = DOMAIN configs \cup {g}
                           /\ configs'[g] = GuildConfig_default
                   /\ h'[g].auto_leave = configs'[g].auto_leave
                   /\ (h'[g].pc = "leave") = configs'[g].auto_leave
                   /\ h'[g].pc \in {"leave", "done"}]_vars

\* One guild had no entry and got the default; the other had auto_leave
\* FALSE, which the lookup kept.
C18_Witness ==
    \E g1, g2 \in Guilds :
        /\ h[g1].lookups = 1 /\ h[g1].created
        /\ configs[g1] = GuildConfig_default
        /\ h[g2].lookups = 1 /\ ~h[g2].created
        /\ configs[g2].auto_leave = FALSE
        /\ h[g2].pc = "done" /\ h[g2].disconnects = 0

\* C19: `queue` pushes only in the step in which it returns Ok, after the
\* resolution and the reply have succeeded: a call that ends with a
\* resolution error or a reply error, and the step that takes the lock and
\* creates the entry, leave the items of every playlist as they were.
C19_PushOnlyAfterReply ==
    [][/\ (lastQueue' # lastQueue
            /\ lastQueue'.result \in {"ResolutionError", "ReplyError"})
            => /\ \A g \in Guilds :
                    Items_of(playlists, g)' = Items_of(playlists, g)
               /\ pushed' = pushed
       /\ \A c \in Cmds :
            (cmd[c].pc = "lock" /\ cmd'[c] # cmd[c])
                => /\ \A g \in Guilds :
                        Items_of(playlists, g)' = Items_of(playlists, g)
                   /\ pushed' = pushed
       /\ \A g \in Guilds :
            Len(Items_of(playlists, g)') > Len(Items_of(playlists, g))
                => \E c \in Cmds : QueueOkStep(c) /\ cmd[c].guild = g]_vars

\* A call ended with a reply error: the entry it created is there, empty.
C19_Witness ==
    /\ lastQueue.result = "ReplyError"
    /\ lastQueue.guild \in DOMAIN playlists
    /\ playlists[lastQueue.guild] = <<>>
    /\ pushed[lastQueue.guild] = <<>>
    /\ h[lastQueue.guild].pc = "idle"

\* ------------------------------------------------------------ liveness
\* The backend accepts every start.
PlayNextStartOk(g) == PlayNextStart(g) /\ h'[g].result = "Ok"

NextLive ==
    \/ \E c \in Cmds, g \in Guilds : QueueResolve(c, g)
    \/ \E c \in Cmds : QueueLock(c)
    \/ \E c \in Cmds : QueueReply(c)
    \/ \E g \in Guilds : TrackEnd(g)
    \/ \E g \in Guilds : PlayNextPop(g)
    \/ \E g \in Guilds : PlayNextStartOk(g)
    \/ \E g \in Guilds : HandlerConfig(g)
    \/ \E g \in Guilds : HandlerLeave(g)

\* Every started track ends, and the runtime keeps polling every task that
\* can move: a `queue` call past its resolution, a handler in any position.
Fairness ==
    /\ \A g \in Guilds :
        /\ WF_vars(TrackEnd(g))
        /\ WF_vars(PlayNextPop(g))
        /\ WF_vars(PlayNextStartOk(g))
        /\ WF_vars(HandlerConfig(g))
        /\ WF_vars(HandlerLeave(g))
    /\ \A c \in Cmds :
        /\ WF_vars(QueueLock(c))
        /\ WF_vars(QueueReply(c))

SpecLive == Init /\ [][NextLive]_vars /\ Fairness

\* C15: when the backend reports the end of every started track and
\* accepts every start, every item a `queue` call appended to a guild's
\* playlist is eventually passed to start, and the guild eventually is Idle
\* with an empty playlist.
C15_EveryItemStarted ==
    \A g \in Guilds :
        /\ \A i \in Items :
            (i \in Range(pushed[g])) ~> (i \in Range(started[g]))
        /\ (pushed[g] # <<>>)
              ~> (Session(g) = "Idle" /\ Items_of(playlists, g) = <<>>)
====
